---------------------------- MODULE Spec2Model ----------------------------
(***************************************************************************)
(* State-machine model of the Sudoku class of src/sudoku.py and the grid   *)
(* helpers of src/util.py: the board (cells), the per-cell candidate sets, *)
(* the singles solver, the elimination strategies and the recursive        *)
(* driver solve().                                                         *)
(***************************************************************************)
EXTENDS Integers, Sequences, FiniteSets, TLC

VARIABLES
    cells,        \* self.cells: 81 values, index 0..80
    candidates,   \* self.candidates: 81 sets of digits
    pc,           \* "idle" | "shs" | "elim" | "done" | "raised"
    phase,        \* the solve_hidden_singles call of the solve frame: 1 | 2
    si,           \* solve_hidden_singles: position in the 27-scan pass
    passCnt,      \* solve_hidden_singles: cnt of the running pass
    ti,           \* eliminate_using_all_techniques: next technique 0..9
    elimCnt,      \* eliminate_using_all_techniques: cnt of the running round
    lvlCnt,       \* solve: cnt of the running solve frame
    ret,          \* solve: sum of the cnt of the finished frames
    rounds,       \* recursive re-invocations made by the running solve()
    calls,        \* solve() calls started on this object
    loads,        \* set_cells / place_cell calls made by the caller
    err,          \* exception raised by the last call, "none" if none
    op,           \* the last operation: name, arguments, returned count
    first,        \* board and candidates when the first solve() returned
    given,        \* the board as the caller loaded it
    sol           \* the verified solution of the loaded board, if any

vars == << cells, candidates, pc, phase, si, passCnt, ti, elimCnt, lvlCnt,
           ret, rounds, calls, loads, err, op, first, given, sol >>

-----------------------------------------------------------------------------
(* Program constants                                                       *)

Side == 9
NumCells == 81

Pos == 0 .. (NumCells - 1)
Digits == 1 .. Side

-----------------------------------------------------------------------------
(* util.py                                                                 *)

\* variant: 0 is refused as a cell value
valid_cell_value_positive(n) == n >= 1 /\ n <= 9

valid_cell_value(n) == n >= 0 /\ n <= 9

cell_index(r, c) == r * 9 + c

box_of(r, c) == (r \div 3) * 3 + (c \div 3)

position(i) == << i \div 9, i % 9, box_of(i \div 9, i % 9) >>

row_of(i) == i \div 9

column_of(i) == i % 9

box_of_i(i) == box_of(i \div 9, i % 9)

row_indices(r) == [k \in 1 .. 9 |-> r * 9 + (k - 1)]

column_indices(c) == [k \in 1 .. 9 |-> (k - 1) * 9 + c]

box_indices(b) ==
    LET r_start == (b \div 3) * 3
        c_start == (b % 3) * 3
    IN  [k \in 1 .. 9 |->
            cell_index(r_start + ((k - 1) \div 3), c_start + ((k - 1) % 3))]

\* query_indices(r=br, b=b): the cells of box b in its br-th row
query_row_box(br, b) ==
    LET r == (b \div 3) * 3 + br
        c_start == (b % 3) * 3
    IN  SubSeq(row_indices(r), c_start + 1, c_start + 3)

\* query_indices(c=bc, b=b): the cells of box b in its bc-th column
query_column_box(bc, b) ==
    LET c == (b % 3) * 3 + bc
        r_start == (b \div 3) * 3
    IN  SubSeq(column_indices(c), r_start + 1, r_start + 3)

SeqSet(s) == {s[k] : k \in 1 .. Len(s)}


-----------------------------------------------------------------------------
(* Board state: sudoku.py, Sudoku.row / column / box / place_cell /        *)
(* eliminate_candidates / compute_candidates                               *)

\* self.row(r), self.column(c), self.box(n): the placed values, as lists
row(cs, r) == [k \in 1 .. 9 |-> cs[r * 9 + (k - 1)]]

column(cs, c) == [k \in 1 .. 9 |-> cs[c + 9 * (k - 1)]]

\* variant: the first column of the box is taken from the box's row
box_diagonal(cs, n) ==
    LET block_r == n \div 3
        c_start == block_r * 3
    IN  [k \in 1 .. 9 |->
            row(cs, block_r * 3 + ((k - 1) \div 3))[c_start + ((k - 1) % 3) + 1]]

box(cs, n) ==
    LET block_r == n \div 3
        block_c == n % 3
        c_start == block_c * 3
    IN  [k \in 1 .. 9 |->
            row(cs, block_r * 3 + ((k - 1) \div 3))[c_start + ((k - 1) % 3) + 1]]

\* a strategy's running result: candidate sets, count, exception
Res(c, n) == [c |-> c, n |-> n, err |-> "none"]

\* the running result when the strategy raises exception e
Raise(st, e) == [c |-> st.c, n |-> st.n, err |-> e]

\* variant: every digit but value becomes a candidate of cell i
remove_candidate_refill(st, i, value) ==
    [c |-> [st.c EXCEPT ![i] = Digits \ {value}], n |-> st.n + 1,
     err |-> st.err]

\* self.candidates[i].remove(value); cnt += 1
remove_candidate(st, i, value) ==
    [c |-> [st.c EXCEPT ![i] = @ \ {value}], n |-> st.n + 1, err |-> st.err]

\* eliminate_candidates_of_indices(indices, value), its count added to st.n
RECURSIVE eliminate_candidates_of_indices(_, _, _)
eliminate_candidates_of_indices(st, I, value) ==
    IF I = {} THEN st
    ELSE LET i == CHOOSE x \in I : TRUE
         IN  eliminate_candidates_of_indices(
                 IF value \in st.c[i] THEN remove_candidate(st, i, value)
                 ELSE st,
                 I \ {i}, value)

\* variant: the box of cell i is left out
eliminate_candidates_lines(cand, value, i) ==
    IF value = 0 THEN Res(cand, 0)
    ELSE LET p == position(i)
             s1 == eliminate_candidates_of_indices(
                       Res(cand, 0), SeqSet(row_indices(p[1])), value)
         IN  eliminate_candidates_of_indices(
                       s1, SeqSet(column_indices(p[2])), value)

\* eliminate_candidates(value, i): row, then column, then box of cell i
eliminate_candidates(cand, value, i) ==
    IF value = 0 THEN Res(cand, 0)
    ELSE LET p == position(i)
             s1 == eliminate_candidates_of_indices(
                       Res(cand, 0), SeqSet(row_indices(p[1])), value)
             s2 == eliminate_candidates_of_indices(
                       s1, SeqSet(column_indices(p[2])), value)
         IN  eliminate_candidates_of_indices(
                       s2, SeqSet(box_indices(p[3])), value)

\* variant: the digit stays among the candidates of the peers
place_cell_cands_own(cand, i, value) == [cand EXCEPT ![i] = {}]

\* place_cell(i, value): the board and the candidate sets afterwards
place_cell_cells(cs, i, value) == [cs EXCEPT ![i] = value]

place_cell_cands(cand, i, value) ==
    eliminate_candidates([cand EXCEPT ![i] = {}], value, i).c

\* compute_candidates(i) for one cell: unchanged when the cell is placed
compute_candidates_of(cs, cand, i) ==
    LET p == position(i)
    IN  IF cs[i] # 0 THEN cand[i]
        ELSE ((Digits \ SeqSet(row(cs, p[1])))
                  \ SeqSet(column(cs, p[2]))) \ SeqSet(box(cs, p[3]))

\* compute_candidates() for all 81 cells
compute_candidates(cs, cand) ==
    [i \in Pos |-> compute_candidates_of(cs, cand, i)]

\* [v for v in line if v != 0]
NonZero(line) == SelectSeq(line, LAMBDA v : v # 0)

\* len(set(line)) == len(line)
NoRepeat(line) == Cardinality(SeqSet(line)) = Len(line)

\* the valid property
valid(cs) ==
    \A i \in 0 .. 8 :
        /\ NoRepeat(NonZero(column(cs, i)))
        /\ NoRepeat(NonZero(box(cs, i)))
        /\ NoRepeat(NonZero(row(cs, i)))

\* variant: the test for empty cells is left out
solved_any(cs) == valid(cs)

\* the solved property
solved(cs) == valid(cs) /\ \A i \in Pos : cs[i] # 0

-----------------------------------------------------------------------------
(* Singles solver: sudoku.py, solve_hidden_singles                         *)

\* The region scanned at position k of a pass: box, row, column of k \div 3
ScanRegion(k) ==
    CASE k % 3 = 0 -> box_indices(k \div 3)
      [] k % 3 = 1 -> row_indices(k \div 3)
      [] OTHER     -> column_indices(k \div 3)

\* candidates_sets holds the set objects of the cells that had a candidate
\* when the scan began.  place_cell rebinds self.candidates[i] to a new
\* set, so the object of a cell placed during the scan stays in the list
\* with the content it had at that moment (field old).
RECURSIVE ShsLoop(_, _, _, _)
ShsLoop(st, indices, inList, j) ==
    IF j > Len(indices) THEN st
    ELSE
      LET i == indices[j]
          own == st.c[i]
          other_candidates ==
              UNION {IF k \in st.placed THEN st.old[k] ELSE st.c[k] :
                         k \in inList \ {i}}
          cand1 == IF Cardinality(own) > 1 THEN own \ other_candidates
                   ELSE own
      IN  IF Cardinality(cand1) = 1
          THEN LET v == CHOOSE x \in cand1 : TRUE
               IN  ShsLoop([cs |-> place_cell_cells(st.cs, i, v),
                            c |-> place_cell_cands(st.c, i, v),
                            old |-> [st.old EXCEPT ![i] = own],
                            placed |-> st.placed \cup {i},
                            n |-> st.n + 1],
                           indices, inList, j + 1)
          ELSE ShsLoop(st, indices, inList, j + 1)

solve_hidden_singles_of_indices(cs, cand, indices) ==
    LET inList == {i \in SeqSet(indices) : Cardinality(cand[i]) >= 1}
        st0 == [cs |-> cs, c |-> cand, old |-> [i \in Pos |-> {}],
                placed |-> {}, n |-> 0]
    IN  IF inList = {} THEN st0
        ELSE ShsLoop(st0, indices, inList, 1)

-----------------------------------------------------------------------------
(* Elimination strategies: sudoku.py                                       *)

\* count_candidates(indices)[k], 0 when k is not a key of the dict
count_candidates(cand, I, k) == Cardinality({i \in I : k \in cand[i]})

\* a run of eliminate_candidates_of_indices(I, k) calls, one per k in K,
\* over the same cells I (the calls remove different digits and commute)
RECURSIVE EliminateEach(_, _, _)
EliminateEach(st, I, K) ==
    IF st.err # "none" \/ K = {} THEN st
    ELSE LET k == CHOOSE x \in K : TRUE
         IN  EliminateEach(eliminate_candidates_of_indices(st, I, k),
                           I, K \ {k})

\* pointing_pair, one band (3 cells of the box in one row or column) of a
\* box: band is the band, line the whole row or column through it
PointingBand(st, boxCells, band, line) ==
    LET K == {k \in Digits :
                 /\ count_candidates(st.c, band, k) >= 1
                 /\ count_candidates(st.c, boxCells, k)
                        = count_candidates(st.c, band, k)}
    IN  EliminateEach(st, line \ band, K)

RECURSIVE PointingRows(_, _, _)
PointingRows(st, b, br) ==
    IF st.err # "none" \/ br > 2 THEN st
    ELSE PointingRows(
             PointingBand(st, SeqSet(box_indices(b)),
                          SeqSet(query_row_box(br, b)),
                          SeqSet(row_indices((b \div 3) * 3 + br))),
             b, br + 1)

RECURSIVE PointingColumns(_, _, _)
PointingColumns(st, b, bc) ==
    IF st.err # "none" \/ bc > 2 THEN st
    ELSE PointingColumns(
             PointingBand(st, SeqSet(box_indices(b)),
                          SeqSet(query_column_box(bc, b)),
                          SeqSet(column_indices((b % 3) * 3 + bc))),
             b, bc + 1)

RECURSIVE PointingBoxes(_, _)
PointingBoxes(st, b) ==
    IF st.err # "none" \/ b > 8 THEN st
    ELSE PointingBoxes(PointingColumns(PointingRows(st, b, 0), b, 0), b + 1)

pointing_pair(cand) == PointingBoxes(Res(cand, 0), 0)

\* box_line_reduction, one row or column (line): every digit that occurs
\* 2 or 3 times in the line, all inside one box, leaves the rest of the box
RECURSIVE BoxLineDigits(_, _, _, _)
BoxLineDigits(st, line, counts, k) ==
    IF st.err # "none" \/ k > 9 THEN st
    ELSE
      LET _indices == {i \in line : k \in st.c[i]}
          _boxes == {position(i)[3] : i \in _indices}
      IN  IF counts[k] \notin {2, 3} \/ Cardinality(_boxes) # 1
          THEN BoxLineDigits(st, line, counts, k + 1)
          ELSE LET b == CHOOSE x \in _boxes : TRUE
                   bi == SeqSet(box_indices(b)) \ _indices
               IN  BoxLineDigits(
                       eliminate_candidates_of_indices(st, bi, k),
                       line, counts, k + 1)

BoxLine(st, line) ==
    BoxLineDigits(st, line,
                  [k \in Digits |-> count_candidates(st.c, line, k)], 1)

RECURSIVE BoxLineRows(_, _)
BoxLineRows(st, r) ==
    IF st.err # "none" \/ r > 8 THEN st
    ELSE BoxLineRows(BoxLine(st, SeqSet(row_indices(r))), r + 1)

RECURSIVE BoxLineColumns(_, _)
BoxLineColumns(st, c) ==
    IF st.err # "none" \/ c > 8 THEN st
    ELSE BoxLineColumns(BoxLine(st, SeqSet(column_indices(c))), c + 1)

box_line_reduction(cand) == BoxLineColumns(BoxLineRows(Res(cand, 0), 0), 0)

\* Iteration order of a Python set of the three boxes of a band or stack,
\* and of the pairs combinations(boxes, 2) made of it: box 8 hashes to
\* slot 0 of the set's table, so {6,7,8} iterates 8,6,7 and {2,5,8}
\* iterates 8,2,5.
SetOrder3(a, b, c) == IF c = 8 THEN << c, a, b >> ELSE << a, b, c >>

BoxPairs(o) == << << o[1], o[2], o[3] >>, << o[1], o[3], o[2] >>,
                  << o[2], o[3], o[1] >> >>

\* box_box_reduction, one pair (b1, b2) of a band of boxes and digit x;
\* the rows of the third box that lose x are those of rb1 only
BoxBoxRowPair(st, x, b1, b2, other_box_i) ==
    LET rb1 == {row_of(i) : i \in {j \in SeqSet(box_indices(b1)) : x \in st.c[j]}}
        rb2 == {row_of(i) : i \in {j \in SeqSet(box_indices(b2)) : x \in st.c[j]}}
        rows == rb1 \cup rb2
    IN  IF rb1 = {} \/ rb2 = {} \/ Cardinality(rows) # 2 THEN st
        ELSE eliminate_candidates_of_indices(
                 st, {i \in SeqSet(box_indices(other_box_i)) : row_of(i) \in rb1}, x)

\* the same for a pair of a stack of boxes; here the columns of both boxes
BoxBoxColumnPair(st, x, b1, b2, other_box_i) ==
    LET cb1 == {column_of(i) : i \in {j \in SeqSet(box_indices(b1)) : x \in st.c[j]}}
        cb2 == {column_of(i) : i \in {j \in SeqSet(box_indices(b2)) : x \in st.c[j]}}
        columns == cb1 \cup cb2
    IN  IF cb1 = {} \/ cb2 = {} \/ Cardinality(columns) # 2 THEN st
        ELSE eliminate_candidates_of_indices(
                 st, {i \in SeqSet(box_indices(other_box_i)) : column_of(i) \in columns}, x)

BoxBoxBand(st, x, k) ==
    LET pairs == BoxPairs(SetOrder3(k * 3, k * 3 + 1, k * 3 + 2))
        s1 == BoxBoxRowPair(st, x, pairs[1][1], pairs[1][2], pairs[1][3])
        s2 == BoxBoxRowPair(s1, x, pairs[2][1], pairs[2][2], pairs[2][3])
    IN  BoxBoxRowPair(s2, x, pairs[3][1], pairs[3][2], pairs[3][3])

BoxBoxStack(st, x, k) ==
    LET pairs == BoxPairs(SetOrder3(k, k + 3, k + 6))
        s1 == BoxBoxColumnPair(st, x, pairs[1][1], pairs[1][2], pairs[1][3])
        s2 == BoxBoxColumnPair(s1, x, pairs[2][1], pairs[2][2], pairs[2][3])
    IN  BoxBoxColumnPair(s2, x, pairs[3][1], pairs[3][2], pairs[3][3])

RECURSIVE BoxBoxDigits(_, _)
BoxBoxDigits(st, x) ==
    IF st.err # "none" \/ x > 9 THEN st
    ELSE LET h == BoxBoxBand(BoxBoxBand(BoxBoxBand(st, x, 0), x, 1), x, 2)
             v == BoxBoxStack(BoxBoxStack(BoxBoxStack(h, x, 0), x, 1), x, 2)
         IN  BoxBoxDigits(v, x + 1)

box_box_reduction(cand) == BoxBoxDigits(Res(cand, 0), 1)

\* itertools.combinations(range(lo, n + 1), k), in its lexicographic order
RECURSIVE Combs(_, _, _)
Combs(lo, n, k) ==
    IF k = 0 THEN << << >> >>
    ELSE IF lo > n THEN << >>
    ELSE LET tails == Combs(lo + 1, n, k - 1)
         IN  [j \in 1 .. Len(tails) |-> << lo >> \o tails[j]]
                 \o Combs(lo + 1, n, k)

combinations == [n \in 0 .. 9 |-> [k \in 2 .. 4 |-> Combs(1, n, k)]]

\* the empty cells of a region, in the region's order
RECURSIVE EmptyCells(_, _, _)
EmptyCells(cs, indices, j) ==
    IF j > Len(indices) THEN << >>
    ELSE (IF cs[indices[j]] = 0 THEN << indices[j] >> ELSE << >>)
             \o EmptyCells(cs, indices, j + 1)

\* naked_subsets, one subset of cells of one region; comb holds the
\* positions of the subset's cells in indices
NakedStep(st, indices, comb) ==
    LET subset_indices == {indices[comb[m]] : m \in 1 .. Len(comb)}
        subset_candidates == UNION {st.c[i] : i \in subset_indices}
    IN  IF Cardinality(subset_candidates) = Len(comb)
        THEN EliminateEach(st, SeqSet(indices) \ subset_indices,
                           subset_candidates)
        ELSE st

\* the subsets combs[lo..hi] in order.  The run is split in two halves,
\* the first before the second, which keeps the evaluation shallow.
RECURSIVE NakedLoop(_, _, _, _, _)
NakedLoop(st, indices, combs, lo, hi) ==
    IF st.err # "none" \/ lo > hi THEN st
    ELSE IF lo = hi THEN NakedStep(st, indices, combs[lo])
    ELSE NakedLoop(NakedLoop(st, indices, combs, lo, (lo + hi) \div 2),
                   indices, combs, (lo + hi) \div 2 + 1, hi)

\* for size in range(2, min(4, len(indices)))
SubsetSizes(indices) ==
    {size \in {2, 3} : size < Len(indices)}

eliminate_naked_subsets_of_indices(st, indices) ==
    LET s2 == IF 2 \in SubsetSizes(indices)
              THEN NakedLoop(st, indices, combinations[Len(indices)][2], 1,
                             Len(combinations[Len(indices)][2]))
              ELSE st
    IN  IF 3 \in SubsetSizes(indices)
        THEN NakedLoop(s2, indices, combinations[Len(indices)][3], 1,
                       Len(combinations[Len(indices)][3]))
        ELSE s2

RECURSIVE NakedRegions(_, _, _)
NakedRegions(st, cs, x) ==
    IF st.err # "none" \/ x > 8 THEN st
    ELSE
      LET bi == EmptyCells(cs, box_indices(x), 1)
          ri == EmptyCells(cs, row_indices(x), 1)
          ci == EmptyCells(cs, column_indices(x), 1)
      IN  NakedRegions(
              eliminate_naked_subsets_of_indices(
                  eliminate_naked_subsets_of_indices(
                      eliminate_naked_subsets_of_indices(st, bi), ri), ci),
              cs, x + 1)

naked_subsets(cs, cand) == NakedRegions(Res(cand, 0), cs, 0)

\* hidden_subsets, one subset of cells of one region; set.union() of an
\* empty list of sets raises TypeError
HiddenStep(st, indices, comb) ==
    LET subset_indices == {indices[comb[m]] : m \in 1 .. Len(comb)}
        subset_candidates == UNION {st.c[i] : i \in subset_indices}
        other_indices == SeqSet(indices) \ subset_indices
        other_candidates == UNION {st.c[i] : i \in other_indices}
        subset_unique_candidates == subset_candidates \ other_candidates
    IN  IF other_indices = {} THEN Raise(st, "TypeError")
        ELSE IF Cardinality(subset_unique_candidates) = Len(comb)
        THEN EliminateEach(st, subset_indices, other_candidates)
        ELSE st

\* the subsets combs[lo..hi] in order
RECURSIVE HiddenLoop(_, _, _, _, _)
HiddenLoop(st, indices, combs, lo, hi) ==
    IF st.err # "none" \/ lo > hi THEN st
    ELSE IF lo = hi THEN HiddenStep(st, indices, combs[lo])
    ELSE HiddenLoop(HiddenLoop(st, indices, combs, lo, (lo + hi) \div 2),
                    indices, combs, (lo + hi) \div 2 + 1, hi)

eliminate_hidden_subsets_of_indices(st, indices) ==
    LET s2 == IF 2 \in SubsetSizes(indices)
              THEN HiddenLoop(st, indices, combinations[Len(indices)][2], 1,
                              Len(combinations[Len(indices)][2]))
              ELSE st
    IN  IF 3 \in SubsetSizes(indices)
        THEN HiddenLoop(s2, indices, combinations[Len(indices)][3], 1,
                        Len(combinations[Len(indices)][3]))
        ELSE s2

RECURSIVE HiddenRegions(_, _, _)
HiddenRegions(st, cs, x) ==
    IF st.err # "none" \/ x > 8 THEN st
    ELSE
      LET bi == EmptyCells(cs, box_indices(x), 1)
          ri == EmptyCells(cs, row_indices(x), 1)
          ci == EmptyCells(cs, column_indices(x), 1)
      IN  HiddenRegions(
              eliminate_hidden_subsets_of_indices(
                  eliminate_hidden_subsets_of_indices(
                      eliminate_hidden_subsets_of_indices(st, bi), ri), ci),
              cs, x + 1)

hidden_subsets(cs, cand) == HiddenRegions(Res(cand, 0), cs, 0)

\* x_wing(n).  A line is a row (byRow) or a column, named by its number.
LineCells(byRow, l) ==
    IF byRow THEN SeqSet(row_indices(l)) ELSE SeqSet(column_indices(l))

CrossOf(byRow, i) == IF byRow THEN column_of(i) ELSE row_of(i)

LineOf(byRow, i) == IF byRow THEN row_of(i) ELSE column_of(i)

\* the lines 0..8 that hold digit x between 2 and n times, in order
RECURSIVE ValidLines(_, _, _, _, _)
ValidLines(cand, byRow, x, n, l) ==
    IF l > 8 THEN << >>
    ELSE LET k == count_candidates(cand, LineCells(byRow, l), x)
         IN  (IF 2 <= k /\ k <= n THEN << l >> ELSE << >>)
                 \o ValidLines(cand, byRow, x, n, l + 1)

\* x_wing, one combination of n of the valid lines for digit x
XWingStep(st, byRow, x, n, valid_lines, comb) ==
    LET lines == {valid_lines[comb[m]] : m \in 1 .. n}
        indices == {i \in Pos : LineOf(byRow, i) \in lines /\ x \in st.c[i]}
        crosses == {CrossOf(byRow, i) : i \in indices}
    IN  IF Cardinality(crosses) = n
        THEN eliminate_candidates_of_indices(
                 st,
                 {i \in Pos : /\ CrossOf(byRow, i) \in crosses
                              /\ LineOf(byRow, i) \notin lines},
                 x)
        ELSE st

\* the combinations combs[lo..hi] in order
RECURSIVE XWingCombs(_, _, _, _, _, _, _, _)
XWingCombs(st, byRow, x, n, valid_lines, combs, lo, hi) ==
    IF st.err # "none" \/ lo > hi THEN st
    ELSE IF lo = hi THEN XWingStep(st, byRow, x, n, valid_lines, combs[lo])
    ELSE XWingCombs(
             XWingCombs(st, byRow, x, n, valid_lines, combs, lo,
                        (lo + hi) \div 2),
             byRow, x, n, valid_lines, combs, (lo + hi) \div 2 + 1, hi)

RECURSIVE XWingDigits(_, _, _, _)
XWingDigits(st, byRow, n, x) ==
    IF st.err # "none" \/ x > 9 THEN st
    ELSE
      LET valid_lines == ValidLines(st.c, byRow, x, n, 0)
      IN  IF Len(valid_lines) < n THEN XWingDigits(st, byRow, n, x + 1)
          ELSE XWingDigits(
                   XWingCombs(st, byRow, x, n, valid_lines,
                              combinations[Len(valid_lines)][n], 1,
                              Len(combinations[Len(valid_lines)][n])),
                   byRow, n, x + 1)

x_wing(cand, n) ==
    XWingDigits(XWingDigits(Res(cand, 0), TRUE, n, 1), FALSE, n, 1)

swordfish(cand) == x_wing(cand, 3)

jellyfish(cand) == x_wing(cand, 4)

\* y_wing / xyz_wing: the pincers of pivot i found in its column, its row
\* and its box, as lists in scan order.  shared is the number of
\* candidates a pincer has in common with the pivot (1 for y_wing, 2 for
\* xyz_wing).
RECURSIVE PincersOf(_, _, _, _, _)
PincersOf(cand, i, cellsToScan, shared, j) ==
    IF j > Len(cellsToScan) THEN << >>
    ELSE LET _i == cellsToScan[j]
         IN  (IF /\ Cardinality(cand[_i]) = 2
                 /\ Cardinality(cand[_i] \cap cand[i]) = shared
              THEN << _i >> ELSE << >>)
                 \o PincersOf(cand, i, cellsToScan, shared, j + 1)

\* the cells of a list that pass a test, in the list's order
RECURSIVE Keep(_, _, _)
Keep(s, ok, j) ==
    IF j > Len(s) THEN << >>
    ELSE (IF s[j] \in ok THEN << s[j] >> ELSE << >>) \o Keep(s, ok, j + 1)

OutsideBox(i) == {k \in Pos : box_of_i(k) # box_of_i(i)}

pincers_column(cand, i, shared) ==
    PincersOf(cand, i, Keep(column_indices(column_of(i)), OutsideBox(i), 1),
              shared, 1)

pincers_row(cand, i, shared) ==
    PincersOf(cand, i, Keep(row_indices(row_of(i)), OutsideBox(i), 1),
              shared, 1)

\* y_wing skips the box cells in the pivot's row or column
y_pincers_box(cand, i) ==
    PincersOf(cand, i,
              Keep(box_indices(box_of_i(i)),
                   {k \in Pos : row_of(k) # row_of(i)
                                   /\ column_of(k) # column_of(i)}, 1),
              1, 1)

\* xyz_wing skips the pivot only
xyz_pincers_box(cand, i) ==
    PincersOf(cand, i, Keep(box_indices(box_of_i(i)), Pos \ {i}, 1), 2, 1)

SymDiff(A, B) == (A \ B) \cup (B \ A)

\* the cells y_wing clears for the pincer pair (i1, i2) of the given kind
YTargets(kind, i1, i2) ==
    LET p1 == position(i1)
        p2 == position(i2)
    IN  CASE kind = "rc" ->
                 {cell_index(p1[1], p2[2]), cell_index(p2[1], p1[2])}
          [] kind = "rb" ->
                 SeqSet(query_row_box(p1[1] % 3, p2[3]))
                     \cup SeqSet(query_row_box(p2[1] % 3, p1[3]))
          [] OTHER ->
                 SeqSet(query_column_box(p1[2] % 3, p2[3]))
                     \cup SeqSet(query_column_box(p2[2] % 3, p1[3]))

\* one loop of y_wing over product(first, second); (a, b) is the position
\* in the product.  set.pop() on an empty intersection raises KeyError;
\* a non-empty one holds a single digit, since the pincers have at most
\* two candidates each and differ.
RECURSIVE YPairs(_, _, _, _, _, _, _)
YPairs(st, i, kind, firstL, secondL, a, b) ==
    IF st.err # "none" \/ a > Len(firstL) \/ Len(secondL) = 0 THEN st
    ELSE IF b > Len(secondL) THEN YPairs(st, i, kind, firstL, secondL, a + 1, 1)
    ELSE
      LET i1 == firstL[a]
          i2 == secondL[b]
          common == st.c[i1] \cap st.c[i2]
      IN  IF SymDiff(st.c[i1], st.c[i2]) # st.c[i]
          THEN YPairs(st, i, kind, firstL, secondL, a, b + 1)
          ELSE IF common = {} THEN Raise(st, "KeyError")
          ELSE YPairs(
                   eliminate_candidates_of_indices(
                       st, YTargets(kind, i1, i2), CHOOSE z \in common : TRUE),
                   i, kind, firstL, secondL, a, b + 1)

\* y_wing, one cell i as the pivot; cnt is set back to 0 at every pivot
YPivot(st, cs, i) ==
    IF cs[i] # 0 \/ Cardinality(st.c[i]) # 2 THEN st
    ELSE
      LET pc_ == pincers_column(st.c, i, 1)
          pr_ == pincers_row(st.c, i, 1)
          pb_ == y_pincers_box(st.c, i)
          s0 == [c |-> st.c, n |-> 0, err |-> st.err]
          s1 == YPairs(s0, i, "rc", pc_, pr_, 1, 1)
          s2 == YPairs(s1, i, "rb", pr_, pb_, 1, 1)
      IN  YPairs(s2, i, "cb", pc_, pb_, 1, 1)

\* the cells lo..hi as pivots, in order
RECURSIVE YPivots(_, _, _, _)
YPivots(st, cs, lo, hi) ==
    IF st.err # "none" \/ lo > hi THEN st
    ELSE IF lo = hi THEN YPivot(st, cs, lo)
    ELSE YPivots(YPivots(st, cs, lo, (lo + hi) \div 2),
                 cs, (lo + hi) \div 2 + 1, hi)

y_wing(cs, cand) == YPivots(Res(cand, 0), cs, 0, 80)

\* one loop of xyz_wing over product(line pincers, box pincers)
RECURSIVE XYZPairs(_, _, _, _, _, _, _)
XYZPairs(st, i, byRow, lineL, boxL, a, b) ==
    IF st.err # "none" \/ a > Len(lineL) \/ Len(boxL) = 0 THEN st
    ELSE IF b > Len(boxL) THEN XYZPairs(st, i, byRow, lineL, boxL, a + 1, 1)
    ELSE
      LET il == lineL[a]
          ib == boxL[b]
          common == st.c[il] \cap st.c[ib]
          band == IF byRow
                  THEN SeqSet(query_row_box(row_of(i) % 3, box_of_i(i)))
                  ELSE SeqSet(query_column_box(column_of(i) % 3, box_of_i(i)))
      IN  IF (st.c[il] \cup st.c[ib]) # st.c[i]
          THEN XYZPairs(st, i, byRow, lineL, boxL, a, b + 1)
          ELSE IF common = {} THEN Raise(st, "KeyError")
          ELSE IF LineOf(byRow, il) = LineOf(byRow, ib)
          THEN XYZPairs(st, i, byRow, lineL, boxL, a, b + 1)
          ELSE XYZPairs(
                   eliminate_candidates_of_indices(
                       st, band \ {i}, CHOOSE z \in common : TRUE),
                   i, byRow, lineL, boxL, a, b + 1)

\* xyz_wing, one cell i as the pivot; cnt is set back to 0 at every pivot
XYZPivot(st, cs, i) ==
    IF cs[i] # 0 \/ Cardinality(st.c[i]) # 3 THEN st
    ELSE
      LET pc_ == pincers_column(st.c, i, 2)
          pr_ == pincers_row(st.c, i, 2)
          pb_ == xyz_pincers_box(st.c, i)
          s0 == [c |-> st.c, n |-> 0, err |-> st.err]
          s1 == XYZPairs(s0, i, TRUE, pr_, pb_, 1, 1)
      IN  XYZPairs(s1, i, FALSE, pc_, pb_, 1, 1)

\* the cells lo..hi as pivots, in order
RECURSIVE XYZPivots(_, _, _, _)
XYZPivots(st, cs, lo, hi) ==
    IF st.err # "none" \/ lo > hi THEN st
    ELSE IF lo = hi THEN XYZPivot(st, cs, lo)
    ELSE XYZPivots(XYZPivots(st, cs, lo, (lo + hi) \div 2),
                   cs, (lo + hi) \div 2 + 1, hi)

xyz_wing(cs, cand) == XYZPivots(Res(cand, 0), cs, 0, 80)

-----------------------------------------------------------------------------
(* Input boards                                                            *)

Grid(t) == [i \in Pos |-> t[i + 1]]

NoSolution == [i \in Pos |-> 0]

Twin ==
    Grid(<< 0, 8, 9, 0, 0, 0, 0, 0, 0,
        0, 1, 0, 4, 7, 0, 0, 2, 8,
        4, 5, 0, 0, 0, 1, 9, 0, 7,
        5, 0, 8, 0, 0, 0, 7, 0, 0,
        0, 0, 0, 0, 1, 0, 8, 5, 0,
        1, 2, 0, 0, 0, 8, 0, 0, 0,
        0, 9, 0, 1, 2, 5, 3, 0, 6,
        2, 0, 0, 0, 0, 0, 0, 8, 4,
        0, 6, 1, 7, 8, 0, 2, 0, 0 >>)

Wings ==
    Grid(<< 0, 0, 4, 2, 0, 0, 5, 0, 0,
        0, 7, 5, 0, 0, 0, 0, 0, 9,
        0, 2, 6, 0, 9, 0, 1, 3, 0,
        0, 0, 0, 4, 0, 9, 6, 0, 2,
        0, 6, 0, 7, 5, 2, 8, 0, 0,
        0, 0, 0, 1, 0, 6, 7, 0, 0,
        0, 8, 0, 0, 6, 1, 4, 7, 5,
        0, 1, 7, 3, 0, 0, 0, 0, 0,
        0, 0, 0, 0, 0, 0, 0, 0, 0 >>)

WingsSolution ==
    Grid(<< 1, 9, 4, 2, 7, 3, 5, 8, 6,
        3, 7, 5, 6, 1, 8, 2, 4, 9,
        8, 2, 6, 5, 9, 4, 1, 3, 7,
        7, 5, 8, 4, 3, 9, 6, 1, 2,
        4, 6, 1, 7, 5, 2, 8, 9, 3,
        9, 3, 2, 1, 8, 6, 7, 5, 4,
        2, 8, 3, 9, 6, 1, 4, 7, 5,
        6, 1, 7, 3, 4, 5, 9, 2, 8,
        5, 4, 9, 8, 2, 7, 3, 6, 1 >>)

Easy ==
    Grid(<< 0, 0, 3, 0, 2, 0, 6, 0, 0,
        9, 0, 0, 3, 0, 5, 0, 0, 1,
        0, 0, 1, 8, 0, 6, 4, 0, 0,
        0, 0, 8, 1, 0, 2, 9, 0, 0,
        7, 0, 0, 0, 0, 0, 0, 0, 8,
        0, 0, 6, 7, 0, 8, 2, 0, 0,
        0, 0, 2, 6, 0, 9, 5, 0, 0,
        8, 0, 0, 2, 0, 3, 0, 0, 9,
        0, 0, 5, 0, 1, 0, 3, 0, 0 >>)

EasySolution ==
    Grid(<< 4, 8, 3, 9, 2, 1, 6, 5, 7,
        9, 6, 7, 3, 4, 5, 8, 2, 1,
        2, 5, 1, 8, 7, 6, 4, 9, 3,
        5, 4, 8, 1, 3, 2, 9, 7, 6,
        7, 2, 9, 5, 6, 4, 1, 3, 8,
        1, 3, 6, 7, 9, 8, 2, 4, 5,
        3, 7, 2, 6, 8, 9, 5, 1, 4,
        8, 1, 4, 2, 5, 3, 7, 6, 9,
        6, 9, 5, 4, 1, 7, 3, 8, 2 >>)

Tangle ==
    Grid(<< 4, 0, 0, 8, 0, 0, 7, 0, 0,
        0, 8, 7, 0, 3, 0, 6, 0, 0,
        5, 0, 0, 4, 0, 0, 1, 8, 0,
        0, 0, 6, 0, 2, 0, 0, 1, 8,
        0, 0, 0, 5, 0, 0, 4, 3, 7,
        0, 0, 4, 0, 0, 0, 5, 2, 6,
        0, 0, 0, 3, 0, 0, 2, 0, 1,
        0, 0, 0, 0, 0, 0, 0, 6, 0,
        0, 1, 0, 6, 9, 9, 0, 0, 0 >>)

RowTwice ==
    Grid(<< 0, 8, 9, 8, 0, 0, 0, 0, 0,
        0, 1, 0, 4, 7, 0, 0, 2, 8,
        4, 5, 0, 0, 0, 1, 9, 0, 7,
        5, 0, 8, 0, 0, 0, 7, 0, 0,
        0, 0, 0, 0, 1, 0, 8, 5, 0,
        1, 2, 0, 0, 0, 8, 0, 0, 0,
        0, 9, 0, 1, 2, 5, 3, 0, 6,
        2, 0, 0, 0, 0, 0, 0, 8, 4,
        0, 6, 1, 7, 8, 0, 2, 0, 0 >>)

Blank ==
    Grid(<< 0, 0, 0, 0, 0, 0, 0, 0, 0,
        0, 0, 0, 0, 0, 0, 0, 0, 0,
        0, 0, 0, 0, 0, 0, 0, 0, 0,
        0, 0, 0, 0, 0, 0, 0, 0, 0,
        0, 0, 0, 0, 0, 0, 0, 0, 0,
        0, 0, 0, 0, 0, 0, 0, 0, 0,
        0, 0, 0, 0, 0, 0, 0, 0, 0,
        0, 0, 0, 0, 0, 0, 0, 0, 0,
        0, 0, 0, 0, 0, 0, 0, 0, 0 >>)

Fish ==
    Grid(<< 2, 0, 1, 0, 0, 4, 0, 0, 0,
        0, 5, 0, 0, 2, 0, 7, 0, 0,
        0, 0, 0, 9, 0, 3, 0, 2, 0,
        1, 3, 0, 0, 0, 0, 0, 0, 0,
        0, 0, 6, 0, 0, 0, 5, 0, 0,
        0, 8, 5, 0, 0, 0, 0, 0, 6,
        8, 7, 0, 0, 5, 0, 3, 0, 1,
        0, 0, 3, 0, 9, 0, 6, 0, 2,
        0, 0, 0, 0, 8, 0, 0, 0, 0 >>)

FishSolution ==
    Grid(<< 2, 9, 1, 5, 7, 4, 8, 6, 3,
        3, 5, 4, 6, 2, 8, 7, 1, 9,
        7, 6, 8, 9, 1, 3, 4, 2, 5,
        1, 3, 7, 8, 6, 5, 2, 9, 4,
        4, 2, 6, 1, 3, 9, 5, 7, 8,
        9, 8, 5, 7, 4, 2, 1, 3, 6,
        8, 7, 9, 2, 5, 6, 3, 4, 1,
        5, 1, 3, 4, 9, 7, 6, 8, 2,
        6, 4, 2, 3, 8, 1, 9, 5, 7 >>)

\* a board with several solutions on which, for digit 7, boxes 7 and 8 hold
\* the digit in one row each while box 6 still holds it in both rows
Band ==
    Grid(<< 0, 0, 7, 0, 1, 0, 0, 3, 2,
        0, 0, 0, 0, 0, 0, 7, 0, 0,
        3, 4, 0, 0, 0, 7, 5, 0, 0,
        2, 0, 0, 6, 0, 0, 0, 0, 0,
        6, 9, 0, 0, 3, 0, 0, 7, 5,
        1, 0, 8, 7, 9, 0, 0, 0, 4,
        0, 0, 6, 3, 0, 0, 0, 9, 0,
        0, 0, 0, 0, 4, 0, 0, 5, 0,
        0, 1, 0, 5, 0, 0, 3, 0, 8 >>)

\* a valid board that has no solution (exhaustive search)
Unsolvable ==
    Grid(<< 7, 0, 0, 0, 0, 5, 4, 2, 0,
        9, 6, 0, 4, 0, 2, 0, 0, 7,
        0, 3, 5, 7, 0, 0, 8, 0, 6,
        0, 0, 4, 1, 0, 0, 2, 6, 0,
        0, 0, 9, 0, 0, 8, 0, 0, 0,
        5, 0, 1, 0, 4, 0, 0, 0, 9,
        8, 4, 0, 5, 0, 6, 9, 7, 2,
        2, 9, 6, 3, 0, 7, 0, 0, 4,
        0, 5, 7, 0, 2, 0, 0, 0, 8 >>)

\* The boards a run may start from, with the unique solution where one was
\* verified by exhaustive search.
Catalogue ==
    << [cells |-> Twin, sol |-> NoSolution],
       [cells |-> Wings, sol |-> WingsSolution],
       [cells |-> RowTwice, sol |-> NoSolution],
       [cells |-> Easy, sol |-> EasySolution],
       [cells |-> Tangle, sol |-> NoSolution],
       [cells |-> Blank, sol |-> NoSolution],
       [cells |-> Band, sol |-> NoSolution],
       [cells |-> Unsolvable, sol |-> NoSolution],
       [cells |-> Fish, sol |-> FishSolution] >>

\* the verified solution of a board, NoSolution when there is none on record
SolutionOf(cs) ==
    IF \E b \in 1 .. Len(Catalogue) : Catalogue[b].cells = cs
    THEN Catalogue[CHOOSE b \in 1 .. Len(Catalogue) :
                       Catalogue[b].cells = cs].sol
    ELSE NoSolution

NumBoards == 8
MaxCalls == 2
MaxLoads == 1
NumPlaceCells == 1
NumReload == 3

Min(a, b) == IF a < b THEN a ELSE b

-----------------------------------------------------------------------------
(* The driver: sudoku.py, Sudoku.__init__ / solve / solve_hidden_singles / *)
(* eliminate_using_all_techniques                                          *)

\* the last operation: its name, its arguments (cell i, digit v, list vals)
\* and its result (count n, truth value ok)
Op(name, i, v, n) ==
    [name |-> name, i |-> i, v |-> v, n |-> n, vals |-> << >>, ok |-> TRUE]

\* Sudoku(cells): the board is stored, every candidate set is empty
Init ==
    /\ \E b \in 1 .. Min(NumBoards, Len(Catalogue)) :
           /\ cells = Catalogue[b].cells
           /\ given = Catalogue[b].cells
           /\ sol = Catalogue[b].sol
    /\ candidates = [i \in Pos |-> {}]
    /\ pc = "idle"
    /\ phase = 1
    /\ si = 0
    /\ passCnt = 0
    /\ ti = 0
    /\ elimCnt = 0
    /\ lvlCnt = 0
    /\ ret = 0
    /\ rounds = 0
    /\ calls = 0
    /\ loads = 0
    /\ err = "none"
    /\ op = Op("init", 0, 0, 0)
    /\ first = [done |-> FALSE, cells |-> cells, candidates |-> candidates]

\* solve(): entry of a non-recursive call, up to and including
\* compute_candidates(); solve_hidden_singles() follows
solve ==
    /\ pc \in {"idle", "done"}
    /\ calls < MaxCalls
    /\ candidates' = compute_candidates(cells, candidates)
    /\ pc' = "shs"
    /\ phase' = 1
    /\ si' = 0
    /\ passCnt' = 0
    /\ ti' = 0
    /\ elimCnt' = 0
    /\ lvlCnt' = 0
    /\ ret' = 0
    /\ rounds' = 0
    /\ calls' = calls + 1
    /\ err' = "none"
    /\ op' = Op("compute_candidates", 0, 0, 0)
    /\ UNCHANGED << cells, loads, first, given, sol >>

\* the solve frame ends with cnt = n: it recurses into solve(True), which
\* starts with eliminate_using_all_techniques, or solve() returns
EndFrame(n, cs, cand) ==
    /\ ret' = ret + n
    /\ lvlCnt' = 0
    /\ IF n > 0
       THEN /\ pc' = "elim"
            /\ rounds' = rounds + 1
            /\ first' = first
       ELSE /\ pc' = "done"
            /\ rounds' = rounds
            /\ first' = IF first.done THEN first
                        ELSE [done |-> TRUE, cells |-> cs, candidates |-> cand]

\* one solve_hidden_singles_of_indices call of a pass; the last call of
\* the pass also decides whether solve_hidden_singles calls itself again
scan ==
    /\ pc = "shs"
    /\ LET r == solve_hidden_singles_of_indices(cells, candidates, ScanRegion(si))
           total == passCnt + r.n
       IN  /\ cells' = r.cs
           /\ candidates' = r.c
           /\ op' = Op("scan", si, 0, r.n)
           /\ IF si < 26
              THEN /\ si' = si + 1
                   /\ passCnt' = total
                   /\ lvlCnt' = lvlCnt + r.n
                   /\ UNCHANGED << pc, phase, ret, rounds, first >>
              ELSE /\ si' = 0
                   /\ passCnt' = 0
                   /\ IF total > 0
                      THEN /\ rounds' = rounds + 1
                           /\ lvlCnt' = lvlCnt + r.n
                           /\ UNCHANGED << pc, phase, ret, first >>
                      ELSE IF phase = 1
                      THEN /\ pc' = "elim"
                           /\ phase' = 2
                           /\ lvlCnt' = lvlCnt + r.n
                           /\ UNCHANGED << ret, rounds, first >>
                      ELSE /\ phase' = 2
                           /\ EndFrame(lvlCnt + r.n, r.cs, r.c)
    /\ ti' = 0
    /\ elimCnt' = 0
    /\ UNCHANGED << calls, loads, err, given, sol >>

\* one technique of eliminate_using_all_techniques, the k-th of the ten;
\* the last one also decides whether the function calls itself again
Technique(k, name, r) ==
    /\ pc = "elim"
    /\ ti = k
    /\ candidates' = r.c
    /\ op' = Op(name, 0, 0, IF r.err # "none" THEN 0 ELSE r.n)
    /\ IF r.err # "none"
       THEN /\ pc' = "raised"
            /\ err' = r.err
            /\ UNCHANGED << ti, elimCnt, rounds >>
       ELSE /\ err' = err
            /\ IF k < 9
               THEN /\ ti' = k + 1
                    /\ elimCnt' = elimCnt + r.n
                    /\ UNCHANGED << pc, rounds >>
               ELSE /\ ti' = 0
                    /\ elimCnt' = 0
                    /\ IF elimCnt + r.n > 0
                       THEN /\ rounds' = rounds + 1
                            /\ pc' = pc
                       ELSE /\ rounds' = rounds
                            /\ pc' = "shs"
    /\ UNCHANGED << cells, phase, si, passCnt, lvlCnt, ret, calls, loads,
                    first, given, sol >>

do_pointing_pair == Technique(0, "pointing_pair", pointing_pair(candidates))

do_box_line_reduction ==
    Technique(1, "box_line_reduction", box_line_reduction(candidates))

do_box_box_reduction ==
    Technique(2, "box_box_reduction", box_box_reduction(candidates))

do_naked_subsets ==
    Technique(3, "naked_subsets", naked_subsets(cells, candidates))

do_hidden_subsets ==
    Technique(4, "hidden_subsets", hidden_subsets(cells, candidates))

do_y_wing == Technique(5, "y_wing", y_wing(cells, candidates))

do_x_wing == Technique(6, "x_wing", x_wing(candidates, 2))

do_xyz_wing == Technique(7, "xyz_wing", xyz_wing(cells, candidates))

do_swordfish == Technique(8, "swordfish", swordfish(candidates))

do_jellyfish == Technique(9, "jellyfish", jellyfish(candidates))

Next ==
    \/ solve
    \/ scan
    \/ do_pointing_pair
    \/ do_box_line_reduction
    \/ do_box_box_reduction
    \/ do_naked_subsets
    \/ do_hidden_subsets
    \/ do_y_wing
    \/ do_x_wing
    \/ do_xyz_wing
    \/ do_swordfish
    \/ do_jellyfish

Spec == Init /\ [][Next]_vars

-----------------------------------------------------------------------------
(* Calls the owner of the object makes between solves: sudoku.py,          *)
(* set_cells / place_cell / compute_candidates / valid                     *)

\* set_cells(values): the exception raised, "none" when the list is taken
set_cells_error(values) ==
    IF Len(values) # 81 THEN "InvalidSudoku"
    ELSE IF \E k \in 1 .. Len(values) : ~valid_cell_value(values[k])
    THEN "InvalidCellValue"
    ELSE "none"

set_cells(values) ==
    /\ pc \in {"idle", "done"}
    /\ loads < MaxLoads
    /\ loads' = loads + 1
    /\ err' = set_cells_error(values)
    /\ op' = [Op("set_cells", 0, 0, 0) EXCEPT !.vals = values]
    /\ IF set_cells_error(values) = "none"
       THEN /\ cells' = Grid(values)
            /\ given' = Grid(values)
            /\ sol' = SolutionOf(Grid(values))
            /\ pc' = pc
       ELSE /\ pc' = "raised"
            /\ UNCHANGED << cells, given, sol >>
    /\ UNCHANGED << candidates, phase, si, passCnt, ti, elimCnt, lvlCnt, ret,
                    rounds, calls, first >>

\* a board as the list the caller passes
AsList(cs) == [k \in 1 .. 81 |-> cs[k - 1]]

\* lists a caller may pass: boards, boards with one entry replaced, and
\* lists of the wrong length
LoadInputs ==
    LET boards == {AsList(Catalogue[b].cells) :
                       b \in 1 .. Min(NumReload, Len(Catalogue))}
    IN  boards
        \cup {[l EXCEPT ![k] = v] : l \in {AsList(Easy)}, k \in {1, 22, 81},
                                    v \in {-1, 5, 10}}
        \cup {SubSeq(l, 1, 80) : l \in {AsList(Easy), AsList(Blank)}}
        \cup {Append(AsList(Easy), 0), Append(AsList(Easy), 10), << >>,
              [AsList(Easy) EXCEPT ![1] = 10, ![2] = -1],
              SubSeq([AsList(Easy) EXCEPT ![1] = 10], 1, 80)}

load == \E values \in LoadInputs : set_cells(values)

\* place_cell(i, value) called by the owner
place_cell(i, value) ==
    /\ pc \in {"idle", "done"}
    /\ loads < MaxLoads
    /\ loads' = loads + 1
    /\ cells' = place_cell_cells(cells, i, value)
    /\ candidates' = place_cell_cands(candidates, i, value)
    /\ given' = place_cell_cells(given, i, value)
    /\ sol' = NoSolution
    /\ op' = Op("place_cell", i, value,
                eliminate_candidates([candidates EXCEPT ![i] = {}], value, i).n)
    /\ UNCHANGED << pc, phase, si, passCnt, ti, elimCnt, lvlCnt, ret, rounds,
                    calls, err, first >>

PlaceCell(k) == (k * 31 + 62) % 81

place ==
    \E k \in 1 .. NumPlaceCells, value \in 0 .. 9 :
        place_cell(PlaceCell(k), value)

\* compute_candidates() called by the owner
compute ==
    /\ pc \in {"idle", "done"}
    /\ candidates' = compute_candidates(cells, candidates)
    /\ op' = Op("compute_candidates", 0, 0, 0)
    /\ UNCHANGED << cells, pc, phase, si, passCnt, ti, elimCnt, lvlCnt, ret,
                    rounds, calls, loads, err, first, given, sol >>

\* the valid property read by the owner
get_valid ==
    /\ pc \in {"idle", "done"}
    /\ op' = [Op("valid", 0, 0, 0) EXCEPT !.ok = valid(cells)]
    /\ UNCHANGED << cells, candidates, pc, phase, si, passCnt, ti, elimCnt,
                    lvlCnt, ret, rounds, calls, loads, err, first, given, sol >>

NextBoard ==
    \/ load
    \/ place
    \/ compute
    \/ get_valid

\* the board operations alone, without solve()
SpecBoard == Init /\ [][NextBoard]_vars

\* an object that is solved on, given another board and solved on again
reload ==
    \E b \in 1 .. Min(NumReload, Len(Catalogue)) :
        set_cells(AsList(Catalogue[b].cells))

place_one == \E value \in {0, 9} : place_cell(PlaceCell(1), value)

InitReuse ==
    /\ Init
    /\ \E b \in 1 .. Min(NumReload, Len(Catalogue)) : cells = Catalogue[b].cells

NextReuse ==
    \/ Next
    \/ reload
    \/ place_one

SpecReuse == InitReuse /\ [][NextReuse]_vars

-----------------------------------------------------------------------------
(* Properties                                                              *)

SameRow(i, j) == i \div 9 = j \div 9

SameColumn(i, j) == i % 9 = j % 9

SameBox(i, j) == i \div 27 = j \div 27 /\ (i % 9) \div 3 = (j % 9) \div 3

\* j is in the row, the column or the box of i
Peer(i, j) == SameRow(i, j) \/ SameColumn(i, j) \/ SameBox(i, j)

\* the cells that share a row, a column or a box with cell i
PeerCells == [i \in Pos |-> {j \in Pos \ {i} : Peer(i, j)}]

\* no two placed cells of one region hold the same digit
NoRegionDuplicate(cs) ==
    \A i \in Pos : cs[i] # 0 => \A j \in PeerCells[i] : cs[j] # cs[i]

\* some row holds one digit in two cells
HasRowDouble(cs) ==
    \E i, j \in Pos : i # j /\ SameRow(i, j) /\ cs[i] # 0 /\ cs[i] = cs[j]

\* a solve() is running with its candidates computed, or has just returned
Solving == pc \in {"shs", "elim"} \/ (pc = "done" /\ op.name = "scan")

TechniqueNames ==
    {"pointing_pair", "box_line_reduction", "box_box_reduction",
     "naked_subsets", "hidden_subsets", "y_wing", "x_wing", "xyz_wing",
     "swordfish", "jellyfish"}

\* C1: while a solve() runs on a board with a verified unique solution S,
\* and when it has returned, every empty cell still has S[i] among its
\* candidates and every placed cell i holds S[i].
C1_Soundness ==
    (sol # NoSolution /\ Solving) =>
        \A i \in Pos :
            IF cells[i] = 0 THEN sol[i] \in candidates[i]
            ELSE cells[i] = sol[i]

\* C2: solve() is never stopped short of its return: the object is idle,
\* or solve() has returned, or the next scan or the next strategy of the
\* running solve() can be taken; and solve() makes at most 81 * 9
\* recursive re-invocations on the way.
C2_Terminates ==
    /\ \/ pc \in {"idle", "done"}
       \/ pc = "shs" /\ si \in 0 .. 26
       \/ pc = "elim" /\ ti \in 0 .. 9
    /\ rounds <= NumCells * Side

\* C3: a solve() call made after solve() has returned places nothing and
\* leaves every cell and every candidate set as the first call left them.
C3_Idempotent ==
    (pc = "done" /\ calls >= 2) =>
        /\ ret = 0
        /\ cells = first.cells
        /\ candidates = first.candidates

\* C4: set_cells(values) raises InvalidSudoku when values has not 81
\* entries, raises InvalidCellValue when it has 81 entries and one of them
\* is outside [0,9], fails in either way whenever an entry is outside
\* [0,9], and otherwise succeeds and leaves exactly values on the board.
C4_SetCells ==
    op.name = "set_cells" =>
        LET v == op.vals
            bad == \E k \in 1 .. Len(v) : v[k] < 0 \/ v[k] > 9
        IN  /\ Len(v) # 81 => err = "InvalidSudoku"
            /\ (Len(v) = 81 /\ bad) => err = "InvalidCellValue"
            /\ bad => err # "none"
            /\ (Len(v) = 81 /\ ~bad) =>
                   /\ err = "none"
                   /\ \A i \in Pos : cells[i] = v[i + 1]

\* a list of 81 values from 0 to 9, both ends of the range among them, was
\* loaded
C4_Loaded ==
    /\ op.name = "set_cells"
    /\ err = "none"
    /\ \E k \in 1 .. 81 : op.vals[k] = 0
    /\ \E k \in 1 .. 81 : op.vals[k] = 9
    /\ cells # Catalogue[1].cells

\* C5: valid is true exactly when no row, column or box holds a digit
\* 1-9 in two of its cells; this is also the value the property returns.
C5_Valid ==
    /\ valid(cells) <=> NoRegionDuplicate(cells)
    /\ op.name = "valid" => (op.ok <=> NoRegionDuplicate(cells))

\* valid was read as false on a board whose rows and columns are free of
\* duplicates: the duplicate is in a box only
C5_BoxDuplicate ==
    /\ op.name = "valid"
    /\ ~op.ok
    /\ \A i, j \in Pos :
           (i # j /\ (SameRow(i, j) \/ SameColumn(i, j)) /\ cells[i] # 0)
               => cells[i] # cells[j]

\* C6: in every state a placed cell has an empty candidate set and an
\* empty cell has a candidate set within 1..9.
C6_CellState ==
    \A i \in Pos :
        /\ cells[i] # 0 => candidates[i] = {}
        /\ cells[i] = 0 => candidates[i] \subseteq Digits

\* a step of a running solve() leaves each candidate set a subset of what
\* it was, keeps every placed cell placed and does not raise the number of
\* empty cells
C7_Step ==
    pc \in {"shs", "elim"} =>
        /\ \A i \in Pos : candidates'[i] \subseteq candidates[i]
        /\ \A i \in Pos : cells[i] # 0 => cells'[i] # 0
        /\ Cardinality({i \in Pos : cells'[i] = 0})
               <= Cardinality({i \in Pos : cells[i] = 0})

\* C7: every step of a running solve() (a scan of a region with its
\* placements, a strategy call with its eliminations) only shrinks
\* candidate sets and never turns a placed cell into an empty one.
C7_Monotone == [][C7_Step]_vars

\* a strategy has just removed candidates in a solve() that had already
\* placed cells
C7_Eliminated ==
    /\ pc = "elim"
    /\ op.name \in TechniqueNames
    /\ op.n > 0
    /\ \E i \in Pos : given[i] = 0 /\ cells[i] # 0

\* C8: no call raises an exception, whatever the board.
C8_NoException == err = "none"

\* C9: a board with one digit twice in a row is not valid before solve()
\* and not valid after it, and solve() leaves every given cell as given.
C9_RowDouble ==
    HasRowDouble(given) =>
        /\ pc \in {"idle", "done"} => ~valid(cells)
        /\ Solving => \A i \in Pos : given[i] # 0 => cells[i] = given[i]

\* the effect of a place_cell(i, v) step with v in 1..9
C10_Step ==
    (op'.name = "place_cell" /\ loads' = loads + 1 /\ op'.v \in Digits) =>
        LET i == op'.i
            v == op'.v
        IN  /\ cells'[i] = v
            /\ candidates'[i] = {}
            /\ \A j \in Pos :
                   /\ Peer(i, j) => v \notin candidates'[j]
                   /\ j # i => cells'[j] = cells[j]
                   /\ (j # i /\ Peer(i, j)) =>
                          candidates'[j] = candidates[j] \ {v}
                   /\ ~Peer(i, j) => candidates'[j] = candidates[j]

\* C10: place_cell(i, v) with v in 1..9 puts v in cell i, empties the
\* candidate set of i, removes v from the candidates of every cell in the
\* row, column and box of i, and changes nothing else: no other cell, no
\* other candidate of a peer, no candidate set outside the three regions.
C10_PlaceCell == [][C10_Step]_vars

\* place_cell has put a digit on the board and removed it from the
\* candidates of some peers
C10_Placed ==
    /\ op.name = "place_cell"
    /\ op.v \in Digits
    /\ op.n > 0
    /\ cells[op.i] = op.v

\* C11: the board of 81 zeros is valid and not solved; solve() on it
\* places no cell and removes no candidate (every scan and every strategy
\* returns 0, every cell keeps the candidates 1..9), it returns 0, and the
\* board is all zeros, valid and not solved at every moment.
C11_EmptyBoard ==
    given = Blank =>
        /\ cells = Blank
        /\ valid(cells)
        /\ ~solved(cells)
        /\ op.n = 0
        /\ Solving => \A i \in Pos : candidates[i] = Digits
        /\ pc = "done" => ret = 0

\* solve() has returned on the board of 81 zeros
C11_EmptySolved ==
    /\ given = Blank
    /\ pc = "done"
    /\ op.name = "scan"
    /\ calls >= 1

\* the number of (cell, digit) pairs in the candidate sets c
RECURSIVE CandidateCount(_, _)
CandidateCount(c, i) ==
    IF i >= NumCells THEN 0 ELSE Cardinality(c[i]) + CandidateCount(c, i + 1)

\* a strategy call that returns: its count is the number of candidates it
\* removed
C13_Step ==
    (op'.name \in TechniqueNames /\ pc = "elim" /\ pc' # "raised") =>
        op'.n = CandidateCount(candidates, 0) - CandidateCount(candidates', 0)

\* C13: every elimination strategy returns the number of (cell, digit)
\* candidate removals it made in the call, and so returns 0 exactly when
\* it left every candidate set as it was.
C13_Counts == [][C13_Step]_vars

\* the unique set of cell i in a region: its own candidates minus the
\* candidates of all other cells of the region
UniqueSet(cand, indices, i) ==
    cand[i] \ UNION {cand[k] : k \in SeqSet(indices) \ {i}}

\* a region's scan by the singles rule, from the j-th cell on: an empty cell
\* whose unique set has exactly one member receives that member, no other
\* cell receives a value
RECURSIVE SinglesRule(_, _, _)
SinglesRule(st, indices, j) ==
    IF j > Len(indices) THEN st
    ELSE LET i == indices[j]
             unique == UniqueSet(st.c, indices, i)
         IN  IF st.cs[i] = 0 /\ Cardinality(unique) = 1
             THEN LET value == CHOOSE v \in unique : TRUE
                  IN  SinglesRule([cs |-> place_cell_cells(st.cs, i, value),
                                   c |-> place_cell_cands(st.c, i, value)],
                                  indices, j + 1)
             ELSE SinglesRule(st, indices, j + 1)

\* a region's scan leaves the board the singles rule gives
C14_Step ==
    (pc = "shs" /\ op'.name = "scan") =>
        cells' = SinglesRule([cs |-> cells, c |-> candidates],
                             ScanRegion(si), 1).cs

\* C14: when solve_hidden_singles scans a region, an empty cell of the
\* region receives a value exactly when its unique set (own candidates
\* minus the candidates of all other cells of the region) has exactly one
\* member, and that member is the value placed; a cell whose unique set is
\* empty or has two or more members is not placed by that scan.
C14_SinglesRule == [][C14_Step]_vars

\* the rows (columns) of box b in which digit d is a candidate
CandidateRows(c, b, d) ==
    {row_of(i) : i \in {j \in SeqSet(box_indices(b)) : d \in c[j]}}

CandidateColumns(c, b, d) ==
    {column_of(i) : i \in {j \in SeqSet(box_indices(b)) : d \in c[j]}}

\* the boxes of the k-th horizontal band and of the k-th vertical stack
BandBoxes(k) == {k * 3, k * 3 + 1, k * 3 + 2}

StackBoxes(k) == {k, k + 3, k + 6}

\* boxes b1, b2 both hold d as a candidate, in exactly 2 rows between them:
\* afterwards (candidate sets after) the third box b3 holds d in neither
\* of the 2 rows and has kept it in its remaining row
BoxBoxRows(before, after, d, b1, b2, b3) ==
    LET rows == CandidateRows(before, b1, d) \cup CandidateRows(before, b2, d)
    IN  (/\ CandidateRows(before, b1, d) # {}
         /\ CandidateRows(before, b2, d) # {}
         /\ Cardinality(rows) = 2)
        => \A i \in SeqSet(box_indices(b3)) :
               IF row_of(i) \in rows THEN d \notin after[i]
               ELSE d \in before[i] => d \in after[i]

BoxBoxColumns(before, after, d, b1, b2, b3) ==
    LET columns == CandidateColumns(before, b1, d)
                       \cup CandidateColumns(before, b2, d)
    IN  (/\ CandidateColumns(before, b1, d) # {}
         /\ CandidateColumns(before, b2, d) # {}
         /\ Cardinality(columns) = 2)
        => \A i \in SeqSet(box_indices(b3)) :
               IF column_of(i) \in columns THEN d \notin after[i]
               ELSE d \in before[i] => d \in after[i]

\* a call of box_box_reduction, over every digit and every two boxes of a
\* band or of a stack
C15_Step ==
    (pc = "elim" /\ op'.name = "box_box_reduction") =>
        \A d \in Digits, k \in 0 .. 2 :
            /\ \A b1, b2, b3 \in BandBoxes(k) :
                   (b1 < b2 /\ b3 \notin {b1, b2}) =>
                       BoxBoxRows(candidates, candidates', d, b1, b2, b3)
            /\ \A b1, b2, b3 \in StackBoxes(k) :
                   (b1 < b2 /\ b3 \notin {b1, b2}) =>
                       BoxBoxColumns(candidates, candidates', d, b1, b2, b3)

\* C15: for a digit d and two boxes of one band (stack) that both hold d as
\* a candidate, in exactly 2 rows (columns) between them, box_box_reduction
\* removes d from every cell of the band's (stack's) third box in those 2
\* rows (columns): after the call no such cell holds d, and d is kept in the
\* third box's remaining row (column).
C15_BoxBox == [][C15_Step]_vars

\* a step of solve() on a board that was valid when the object was made:
\* the board is valid after it, and a cell that receives a digit was empty,
\* had the digit among its candidates, has no peer holding the digit, and
\* no peer keeps the digit as a candidate.  A scan may place several cells;
\* the board after each of them is part of the board after the scan, so it
\* is valid when that one is.
C16_Step ==
    valid(given) =>
        /\ valid(cells')
        /\ \A i \in Pos :
               cells'[i] # cells[i] =>
                   /\ cells[i] = 0
                   /\ cells'[i] \in candidates[i]
                   /\ \A k \in PeerCells[i] :
                          /\ cells'[k] # cells'[i]
                          /\ cells'[i] \notin candidates'[k]

\* C16: for a freshly constructed Sudoku whose board is valid, the board is
\* valid after every placement made during solve() and when solve()
\* returns, whether or not the puzzle has a solution: a digit is placed
\* only into an empty cell, is taken from the cell's candidate set, is held
\* by no peer of the cell, and is removed from the candidates of all peers.
C16_ValidKept == [][C16_Step]_vars

\* solve() has returned on the valid board without solution, after placing
\* cells, and has left an empty cell without candidates
C16_UnsolvableDone ==
    /\ given = Unsolvable
    /\ valid(given)
    /\ pc = "done"
    /\ op.name = "scan"
    /\ ret > 0
    /\ \E i \in Pos : cells[i] = 0 /\ candidates[i] = {}

\* the candidate sets each of the ten strategies leaves when it is applied
\* to the board cs with the candidate sets cand
StrategyResults(cs, cand) ==
    {pointing_pair(cand).c, box_line_reduction(cand).c,
     box_box_reduction(cand).c, naked_subsets(cs, cand).c,
     hidden_subsets(cs, cand).c, y_wing(cs, cand).c, x_wing(cand, 2).c,
     xyz_wing(cs, cand).c, swordfish(cand).c, jellyfish(cand).c}

\* C12: the driver stops only after a round without change, so when
\* solve() has returned the state is a fixpoint: each of the ten
\* elimination strategies applied to it removes no candidate, and no
\* region scan of solve_hidden_singles places a cell.
C12_Fixpoint ==
    pc = "done" =>
        /\ StrategyResults(cells, candidates) = {candidates}
        /\ \A k \in 0 .. 26 :
               LET r == solve_hidden_singles_of_indices(
                            cells, candidates, ScanRegion(k))
               IN  r.n = 0 /\ r.cs = cells /\ r.c = candidates

=============================================================================
